---- MODULE Spec2Model ----
(***************************************************************************)
(* The dependency-injection container of ck-ms-di.                         *)
(*                                                                         *)
(* Two containers live in src/src/ServiceContainer.ts:                     *)
(*   - the synchronous container (register / resolve, lines 351-522),      *)
(*     specification Spec;                                                 *)
(*   - the asynchronous container (registerAsync / resolveAsync, lines     *)
(*     18-166), whose calls interleave at their await points,              *)
(*     specification SpecAsync.                                            *)
(*                                                                         *)
(* A class is known to the container by its name and by the names of its   *)
(* constructor parameter types (Reflect design:paramtypes).  An instance   *)
(* is a record of its identity (the number of objects constructed before   *)
(* it, plus one), its service name and its constructor arguments.          *)
(***************************************************************************)
EXTENDS Integers, Sequences, FiniteSets, TLC

\* ------------------------------------------------------------------ bounds
\* instances constructed in one run
MaxInst == 3
\* uuids handed out by beginSession in one run
MaxSessions == 2
\* nested resolve frames the call stack holds before the engine raises
\* RangeError (Maximum call stack size exceeded)
MaxDepth == 4
\* asynchronous calls in flight at the same time
MaxTasks == 2
\* decorators Service(options) returns in one run
MaxDecorators == 2
\* class declarations that carry a decorator in one run
MaxApplied == 2

\* ------------------------------------------------------------------ values
Names == {"A", "B", "C"}

Lifecycles == {"singleton", "transient", "scoped"}

\* dependency.name of the container class itself
ContainerName == "ServiceContainer"

\* sessionId left out: resolve(nameOrType)
NoSessionId == 0

\* an object built by `new service.classType(...args)`
Instance(id, name, args) == [id |-> id, name |-> name, args |-> args]

\* the value `undefined` where an instance is expected
Undefined == Instance(0, "", <<>>)

\* the container object as a constructor argument
ContainerRef == Instance(-1, ContainerName, <<>>)

SessionIds == 1 .. MaxSessions

\* what a caller passes as nameOrType: a string, or a class (a function
\* whose name property is the class name)
Str(value) == [typeof |-> "string", value |-> value, name |-> ""]

Type(classType) == [typeof |-> "function", value |-> "", name |-> classType]

NamesOrTypes(names) == {Str(n) : n \in names} \cup {Type(n) : n \in Names}

\* an empty Map
EmptyMap == [k \in {} |-> Undefined]

MapSet(map, key, value) ==
    [k \in (DOMAIN map) \cup {key} |-> IF k = key THEN value ELSE map[k]]

MapDelete(map, key) == [k \in (DOMAIN map) \ {key} |-> map[k]]

\* A program is the set of its decorated classes,
\*     @Service({ lifecycle }) class name { constructor(...paramtypes) {} }
\* class name -> lifecycle and names of the constructor parameter types
\* (Reflect design:paramtypes), in declaration order.
Class(lifecycle, types) == [lifecycle |-> lifecycle, paramtypes |-> types]

\* a singleton, a scoped service that uses it, a transient that uses both
SharingProgram == [n \in Names |->
    CASE n = "A" -> Class("singleton", <<>>)
      [] n = "B" -> Class("scoped", <<"A">>)
      [] n = "C" -> Class("transient", <<"B", "A">>)]

\* singletons that depend on singletons, one of them twice
ChainProgram == [n \in Names |->
    CASE n = "A" -> Class("singleton", <<>>)
      [] n = "B" -> Class("singleton", <<"A", "A">>)
      [] n = "C" -> Class("transient", <<"B", "A">>)]

\* A -> B -> A among transients, and an unrelated service
CycleProgram == [n \in Names |->
    CASE n = "A" -> Class("transient", <<"B">>)
      [] n = "B" -> Class("transient", <<"A">>)
      [] n = "C" -> Class("transient", <<>>)]

\* A -> B -> A among scoped services
ScopedCycleProgram == [n \in Names |->
    CASE n = "A" -> Class("scoped", <<"B">>)
      [] n = "B" -> Class("scoped", <<"A">>)
      [] n = "C" -> Class("singleton", <<>>)]

\* a singleton that declares a scoped service after another dependency
OrderProgram == [n \in Names |->
    CASE n = "A" -> Class("scoped", <<>>)
      [] n = "B" -> Class("singleton", <<"C", "A">>)
      [] n = "C" -> Class("transient", <<ContainerName>>)]

\* a singleton that reaches a scoped service through a transient
TransitiveProgram == [n \in Names |->
    CASE n = "A" -> Class("scoped", <<>>)
      [] n = "B" -> Class("transient", <<"A">>)
      [] n = "C" -> Class("singleton", <<"B">>)]

\* a scoped service that uses a scoped service, a transient that uses both
ScopedChainProgram == [n \in Names |->
    CASE n = "A" -> Class("scoped", <<>>)
      [] n = "B" -> Class("scoped", <<"A">>)
      [] n = "C" -> Class("transient", <<"B", "A">>)]

\* a transient service that declares a scoped dependency before another one
PartialProgram == [n \in Names |->
    IF n = "A" THEN Class("scoped", <<>>)
    ELSE IF n = "B" THEN Class("transient", <<"A", "C">>)
    ELSE Class("transient", <<>>)]

\* a singleton that declares a scoped dependency before another one
MirrorProgram == [n \in Names |->
    IF n = "A" THEN Class("scoped", <<>>)
    ELSE IF n = "B" THEN Class("singleton", <<"A", "C">>)
    ELSE Class("transient", <<ContainerName>>)]

\* a transient service that two services depend on, one of them twice
FreshProgram == [n \in Names |->
    IF n = "A" THEN Class("transient", <<>>)
    ELSE IF n = "B" THEN Class("transient", <<"A", "A">>)
    ELSE Class("transient", <<"A">>)]

Programs ==
    {SharingProgram, ChainProgram, CycleProgram, ScopedCycleProgram, OrderProgram,
     TransitiveProgram, ScopedChainProgram, PartialProgram, MirrorProgram,
     FreshProgram}

VARIABLES
    classes,     \* the decorated classes of the program
    services,    \* _services: name -> ServiceModel
    sessions,    \* sessions: sessionId -> (name -> entry of session.services)
    uuids,       \* number of uuids uuidv4() has returned
    made,        \* number of objects made by `new service.classType(...)`
    tasks,       \* asynchronous calls in flight (SpecAsync)
    last,        \* the call that returned last, and what it returned
    firstRet,    \* first instance returned per ShareKey since clear()
    decorators   \* the decorators Service(options) has returned (SpecService)

vars == <<classes, services, sessions, uuids, made, tasks, last, firstRet,
         decorators>>

\* ------------------------------------------------------ ServiceModel objects
\* { name, lifecycle, classType } as built by register; instance is unset.
ServiceModel(name, classType, lifecycle) ==
    [name |-> name, lifecycle |-> lifecycle, classType |-> classType,
     instance |-> Undefined]

\* An entry of session.services is either the very ServiceModel object of
\* _services (shared = TRUE: its instance is read through _services), or an
\* object of its own ({...service, instance}).
SharedEntry == [shared |-> TRUE, instance |-> Undefined]

OwnEntry(instance) == [shared |-> FALSE, instance |-> instance]

\* scopedService.instance for an entry of session.services
EntryInstance(st, sessionId, name) ==
    LET entry == st.sessions[sessionId][name]
    IN  IF entry.shared THEN st.services[name].instance ELSE entry.instance

\* the container state a call works on
State(svc, sess, n) == [services |-> svc, sessions |-> sess, made |-> n]

\* mutant: a call that throws takes the descriptor of the service its
\* message names out of the store
ThrowUnregisters(kind, name, dep, st) ==
    [err |-> kind, name |-> name, dep |-> dep, val |-> Undefined,
     st |-> [st EXCEPT !.services = MapDelete(@, name)]]

\* a call that threw: the error kind, the service and the dependency its
\* message names, and the state the call left behind
Throw(kind, name, dep, st) ==
    [err |-> kind, name |-> name, dep |-> dep, val |-> Undefined, st |-> st]

\* a call that returned val
Return(val, st) == [err |-> "", name |-> "", dep |-> "", val |-> val, st |-> st]

\* ------------------------------------------------- synchronous container
\* mutant: the object is built, but not as an object of its own (the next
\* one constructed has the same identity)
ConstructShared(st, service, args) ==
    Return(Instance(st.made + 1, service.classType, args), st)

\* new service.classType(...resolvedDependencies): a fresh object
Construct(st, service, args) ==
    Return(Instance(st.made + 1, service.classType, args), [st EXCEPT !.made = @ + 1])

\* mutant: the cached instance of a singleton is ignored
SingletonNeverCached(service) == FALSE

\* service.lifecycle === 'singleton' && service.instance
SingletonCached(service) ==
    service.lifecycle = "singleton" /\ service.instance # Undefined

\* mutant: the lifecycle of a dependency is not looked at
ScopedIntoAnything(service, depService) == FALSE

\* service.lifecycle == 'singleton' && depService?.lifecycle == 'scoped'
ScopedIntoSingleton(service, depService) ==
    service.lifecycle = "singleton" /\ depService.lifecycle = "scoped"

\* session.services.set(service.name, service): the session keeps the
\* ServiceModel object of _services itself
SessionStore(st, sessionId, name) ==
    [st EXCEPT !.sessions[sessionId] = MapSet(@, name, SharedEntry)]

\* service.instance = instance, on the ServiceModel object of _services
SetInstance(st, name, instance) ==
    [st EXCEPT !.services[name].instance = instance]

RECURSIVE resolve(_, _, _, _), mapDependencies(_, _, _, _, _, _)

\* mutant: the container class is looked up like any other dependency
mapDependenciesLookup(st, service, sessionId, deps, args, depth) ==
    IF deps = <<>> THEN Return(args, st)
    ELSE LET dependency == Head(deps) IN
         IF dependency \notin DOMAIN st.services
         THEN Throw("UnresolvedDependency", service.name, dependency, st)
         ELSE IF ScopedIntoSingleton(service, st.services[dependency])
         THEN Throw("IllegalScopedInjection", service.name, dependency, st)
         ELSE LET r == resolve(st, dependency, sessionId, depth + 1) IN
              IF r.err # "" THEN r
              ELSE mapDependencies(r.st, service, sessionId, Tail(deps),
                                   Append(args, r.val), depth)

\* mutant: a dependency without a ServiceModel is passed as undefined
mapDependenciesLenient(st, service, sessionId, deps, args, depth) ==
    IF deps = <<>> THEN Return(args, st)
    ELSE LET dependency == Head(deps) IN
         IF dependency = ContainerName
         THEN mapDependencies(st, service, sessionId, Tail(deps),
                              Append(args, ContainerRef), depth)
         ELSE IF dependency \notin DOMAIN st.services
         THEN mapDependencies(st, service, sessionId, Tail(deps),
                              Append(args, Undefined), depth)
         ELSE IF ScopedIntoSingleton(service, st.services[dependency])
         THEN Throw("IllegalScopedInjection", service.name, dependency, st)
         ELSE LET r == resolve(st, dependency, sessionId, depth + 1) IN
              IF r.err # "" THEN r
              ELSE mapDependencies(r.st, service, sessionId, Tail(deps),
                                   Append(args, r.val), depth)

\* mutant: each resolved dependency is put in front of those resolved
\* before it
mapDependenciesReversed(st, service, sessionId, deps, args, depth) ==
    IF deps = <<>> THEN Return(args, st)
    ELSE LET dependency == Head(deps) IN
         IF dependency = ContainerName
         THEN mapDependencies(st, service, sessionId, Tail(deps),
                              <<ContainerRef>> \o args, depth)
         ELSE IF dependency \notin DOMAIN st.services
         THEN Throw("UnresolvedDependency", service.name, dependency, st)
         ELSE IF ScopedIntoSingleton(service, st.services[dependency])
         THEN Throw("IllegalScopedInjection", service.name, dependency, st)
         ELSE LET r == resolve(st, dependency, sessionId, depth + 1) IN
              IF r.err # "" THEN r
              ELSE mapDependencies(r.st, service, sessionId, Tail(deps),
                                   <<r.val>> \o args, depth)

\* mutant: all the dependencies are looked up before the first one is
\* resolved
mapDependenciesLookupFirst(st, service, sessionId, deps, args, depth) ==
    LET missing == {i \in DOMAIN deps :
                       deps[i] # ContainerName /\ deps[i] \notin DOMAIN st.services}
    IN  IF deps = <<>> THEN Return(args, st)
        ELSE IF missing # {}
        THEN Throw("UnresolvedDependency", service.name,
                   deps[CHOOSE i \in missing : \A j \in missing : i <= j], st)
        ELSE LET dependency == Head(deps) IN
             IF dependency = ContainerName
             THEN mapDependencies(st, service, sessionId, Tail(deps),
                                  Append(args, ContainerRef), depth)
             ELSE IF ScopedIntoSingleton(service, st.services[dependency])
             THEN Throw("IllegalScopedInjection", service.name, dependency, st)
             ELSE LET r == resolve(st, dependency, sessionId, depth + 1) IN
                  IF r.err # "" THEN r
                  ELSE mapDependencies(r.st, service, sessionId, Tail(deps),
                                       Append(args, r.val), depth)

\* mutant: a dependency that an earlier constructor parameter names is
\* taken for a cycle
mapDependenciesSeenOnce(st, service, sessionId, deps, args, depth) ==
    LET declared == classes[service.classType].paramtypes
    IN  IF deps = <<>> THEN Return(args, st)
        ELSE LET dependency == Head(deps) IN
             IF dependency = ContainerName
             THEN mapDependencies(st, service, sessionId, Tail(deps),
                                  Append(args, ContainerRef), depth)
             ELSE IF dependency \notin DOMAIN st.services
             THEN Throw("UnresolvedDependency", service.name, dependency, st)
             ELSE IF ScopedIntoSingleton(service, st.services[dependency])
             THEN Throw("IllegalScopedInjection", service.name, dependency, st)
             ELSE IF \E i \in 1..Len(args) : declared[i] = dependency
             THEN Throw("CircularDependency", service.name, dependency, st)
             ELSE LET r == resolve(st, dependency, sessionId, depth + 1) IN
                  IF r.err # "" THEN r
                  ELSE mapDependencies(r.st, service, sessionId, Tail(deps),
                                       Append(args, r.val), depth)

\* dependencies.map(...) of _createInstance: the dependencies left to
\* resolve, the arguments resolved so far
mapDependencies(st, service, sessionId, deps, args, depth) ==
    IF deps = <<>> THEN Return(args, st)
    ELSE LET dependency == Head(deps) IN
         IF dependency = ContainerName
         THEN mapDependencies(st, service, sessionId, Tail(deps),
                              Append(args, ContainerRef), depth)
         ELSE IF dependency \notin DOMAIN st.services
         THEN Throw("UnresolvedDependency", service.name, dependency, st)
         ELSE IF ScopedIntoSingleton(service, st.services[dependency])
         THEN Throw("IllegalScopedInjection", service.name, dependency, st)
         ELSE LET r == resolve(st, dependency, sessionId, depth + 1) IN
              IF r.err # "" THEN r
              ELSE mapDependencies(r.st, service, sessionId, Tail(deps),
                                   Append(args, r.val), depth)

\* mutant: the dependencies are resolved without the sessionId
createInstanceUnscoped(st, service, sessionId, depth) ==
    LET m == mapDependencies(st, service, NoSessionId,
                             classes[service.classType].paramtypes, <<>>, depth)
    IN  IF m.err # "" THEN m ELSE Construct(m.st, service, m.val)

createInstance(st, service, sessionId, depth) ==
    LET m == mapDependencies(st, service, sessionId,
                             classes[service.classType].paramtypes, <<>>, depth)
    IN  IF m.err # "" THEN m ELSE Construct(m.st, service, m.val)

resolveFromSession(st, service, sessionId, depth) ==
    IF sessionId \notin DOMAIN st.sessions
    THEN Throw("UnknownScope", service.name, "", st)
    ELSE IF service.name \in DOMAIN st.sessions[sessionId]
    THEN Return(EntryInstance(st, sessionId, service.name), st)
    ELSE LET c == createInstance(st, service, sessionId, depth) IN
         IF c.err # "" THEN c
         ELSE Return(c.val, SessionStore(SetInstance(c.st, service.name, c.val),
                                         sessionId, service.name))

\* mutant: a name without a ServiceModel resolves to undefined
resolveLenient(st, serviceName, sessionId, depth) ==
    IF depth > MaxDepth THEN Throw("RangeError", serviceName, "", st)
    ELSE IF serviceName \notin DOMAIN st.services
    THEN Return(Undefined, st)
    ELSE LET service == st.services[serviceName] IN
         IF service.lifecycle = "scoped" /\ sessionId = NoSessionId
         THEN Throw("ScopeRequired", serviceName, "", st)
         ELSE IF service.lifecycle = "scoped"
         THEN resolveFromSession(st, service, sessionId, depth)
         ELSE IF SingletonCached(service) THEN Return(service.instance, st)
         ELSE createInstance(st, service, sessionId, depth)

\* mutant: a scoped service resolved without a sessionId is constructed
resolveUnscoped(st, serviceName, sessionId, depth) ==
    IF depth > MaxDepth THEN Throw("RangeError", serviceName, "", st)
    ELSE IF serviceName \notin DOMAIN st.services
    THEN Throw("NotFound", serviceName, "", st)
    ELSE LET service == st.services[serviceName] IN
         IF service.lifecycle = "scoped" /\ sessionId # NoSessionId
         THEN resolveFromSession(st, service, sessionId, depth)
         ELSE IF SingletonCached(service) THEN Return(service.instance, st)
         ELSE createInstance(st, service, sessionId, depth)

\* mutant: the sessionId is looked up before the name
resolveSessionFirst(st, serviceName, sessionId, depth) ==
    IF depth > MaxDepth THEN Throw("RangeError", serviceName, "", st)
    ELSE IF sessionId # NoSessionId /\ sessionId \notin DOMAIN st.sessions
    THEN Throw("UnknownScope", serviceName, "", st)
    ELSE IF serviceName \notin DOMAIN st.services
    THEN Throw("NotFound", serviceName, "", st)
    ELSE LET service == st.services[serviceName] IN
         IF service.lifecycle = "scoped" /\ sessionId = NoSessionId
         THEN Throw("ScopeRequired", serviceName, "", st)
         ELSE IF service.lifecycle = "scoped"
         THEN resolveFromSession(st, service, sessionId, depth)
         ELSE IF SingletonCached(service) THEN Return(service.instance, st)
         ELSE createInstance(st, service, sessionId, depth)

\* mutant: the call stack has no limit, and a recursion that gets deeper
\* than MaxDepth frames never comes back
resolveNoStackLimit(st, serviceName, sessionId, depth) ==
    IF depth > MaxDepth THEN Throw("NoReturn", serviceName, "", st)
    ELSE IF serviceName \notin DOMAIN st.services
    THEN Throw("NotFound", serviceName, "", st)
    ELSE LET service == st.services[serviceName] IN
         IF service.lifecycle = "scoped" /\ sessionId = NoSessionId
         THEN Throw("ScopeRequired", serviceName, "", st)
         ELSE IF service.lifecycle = "scoped"
         THEN resolveFromSession(st, service, sessionId, depth)
         ELSE IF SingletonCached(service) THEN Return(service.instance, st)
         ELSE createInstance(st, service, sessionId, depth)

\* mutant: the instance of a transient is kept on its ServiceModel and
\* returned from there
resolveTransientKept(st, serviceName, sessionId, depth) ==
    IF depth > MaxDepth THEN Throw("RangeError", serviceName, "", st)
    ELSE IF serviceName \notin DOMAIN st.services
    THEN Throw("NotFound", serviceName, "", st)
    ELSE LET service == st.services[serviceName] IN
         IF service.lifecycle = "scoped" /\ sessionId = NoSessionId
         THEN Throw("ScopeRequired", serviceName, "", st)
         ELSE IF service.lifecycle = "scoped"
         THEN resolveFromSession(st, service, sessionId, depth)
         ELSE IF service.instance # Undefined THEN Return(service.instance, st)
         ELSE LET c == createInstance(st, service, sessionId, depth) IN
              IF c.err # "" THEN c
              ELSE Return(c.val, SetInstance(c.st, serviceName, c.val))

\* resolve(nameOrType, sessionId); depth is the number of resolve frames on
\* the call stack
resolve(st, serviceName, sessionId, depth) ==
    IF depth > MaxDepth THEN Throw("RangeError", serviceName, "", st)
    ELSE IF serviceName \notin DOMAIN st.services
    THEN Throw("NotFound", serviceName, "", st)
    ELSE LET service == st.services[serviceName] IN
         IF service.lifecycle = "scoped" /\ sessionId = NoSessionId
         THEN Throw("ScopeRequired", serviceName, "", st)
         ELSE IF service.lifecycle = "scoped"
         THEN resolveFromSession(st, service, sessionId, depth)
         ELSE IF SingletonCached(service) THEN Return(service.instance, st)
         ELSE createInstance(st, service, sessionId, depth)

\* mutant: register does not look for an existing registration
NeverRegistered(st, name) == FALSE

\* this._services.has(name)
AlreadyRegistered(st, name) == name \in DOMAIN st.services

\* mutant: the ServiceModel is stored before its instance is created
registerThenCreate(st, name, classType, lifecycle) ==
    IF AlreadyRegistered(st, name)
    THEN Throw("DuplicateService", name, "", st)
    ELSE LET service == ServiceModel(name, classType, lifecycle)
             stored == [st EXCEPT !.services = MapSet(@, name, service)]
         IN  IF lifecycle = "singleton"
             THEN LET c == createInstance(stored, service, NoSessionId, 1) IN
                  IF c.err # "" THEN c
                  ELSE Return(Undefined, SetInstance(c.st, name, c.val))
             ELSE Return(Undefined, stored)

\* register(name, classType, lifecycle)
register(st, name, classType, lifecycle) ==
    IF AlreadyRegistered(st, name)
    THEN Throw("DuplicateService", name, "", st)
    ELSE LET service == ServiceModel(name, classType, lifecycle) IN
         IF lifecycle = "singleton"
         THEN LET c == createInstance(st, service, NoSessionId, 1) IN
              IF c.err # "" THEN c
              ELSE Return(Undefined,
                     [c.st EXCEPT !.services =
                        MapSet(@, name, [service EXCEPT !.instance = c.val])])
         ELSE Return(Undefined, [st EXCEPT !.services = MapSet(@, name, service)])

\* mutant: nameOrType itself is the key of the lookup
ServiceNameAsKey(nameOrType) == nameOrType.value

\* serviceName of resolve: nameOrType when it is a string, nameOrType.name
\* otherwise
ServiceName(nameOrType) ==
    IF nameOrType.typeof = "string" THEN nameOrType.value ELSE nameOrType.name

\* resolve(nameOrType, sessionId) as a caller of the container calls it
resolveNameOrType(st, nameOrType, sessionId) ==
    resolve(st, ServiceName(nameOrType), sessionId, 1)

\* ------------------------------------------------- calls and their record
\* what the caller of a finished call observes
Outcome(op, name, sessionId, r) ==
    [op |-> op, name |-> name, sessionId |-> sessionId,
     err |-> r.err, about |-> <<r.name, r.dep>>, val |-> r.val]

NoCall ==
    [op |-> "none", name |-> "", sessionId |-> NoSessionId,
     err |-> "", about |-> <<"", "">>, val |-> Undefined]

\* what an instance of the service is shared within: the scope for a Scoped
\* service, the container for a Singleton
ShareKey(name, sessionId) ==
    IF classes[name].lifecycle = "scoped" THEN <<name, sessionId>>
    ELSE <<name, NoSessionId>>

\* the first instance a successful resolve returned for ShareKey(name,
\* sessionId), kept for the services whose instances are meant to be shared
NoteFirst(first, name, sessionId, r) ==
    IF /\ r.err = "" /\ r.val # Undefined
       /\ name \in DOMAIN classes
       /\ ShareKey(name, sessionId) \notin DOMAIN first
       /\ classes[name].lifecycle # "transient"
    THEN MapSet(first, ShareKey(name, sessionId), r.val)
    ELSE first

Init ==
    /\ classes \in Programs
    /\ services = EmptyMap
    /\ sessions = EmptyMap
    /\ uuids = 0
    /\ made = 0
    /\ tasks = <<>>
    /\ last = NoCall
    /\ firstRet = EmptyMap
    /\ decorators = <<>>

\* @Service({ lifecycle }) on class classType:
\* ServiceContainer.register(options.name, target, options.lifecycle)
Register(name, classType, lifecycle) ==
    \E r \in {register(State(services, sessions, made), name, classType, lifecycle)} :
        /\ r.st.made <= MaxInst
        /\ services' = r.st.services
        /\ sessions' = r.st.sessions
        /\ made' = r.st.made
        /\ last' = Outcome("register", name, NoSessionId, r)
        /\ UNCHANGED <<classes, decorators, uuids, tasks, firstRet>>

\* container.resolve(nameOrType, sessionId)
Resolve(nameOrType, sessionId) ==
    \E r \in {resolveNameOrType(State(services, sessions, made), nameOrType,
                                sessionId)},
       serviceName \in {ServiceName(nameOrType)} :
        /\ r.st.made <= MaxInst
        /\ services' = r.st.services
        /\ sessions' = r.st.sessions
        /\ made' = r.st.made
        /\ last' = Outcome("resolve", serviceName, sessionId, r)
        /\ firstRet' = NoteFirst(firstRet, serviceName, sessionId, r)
        /\ UNCHANGED <<classes, decorators, uuids, tasks>>

\* mutant: beginSession hands out the first id again and again
BeginSessionSameId ==
    LET sessionId == 1
    IN  /\ uuids < MaxSessions
        /\ sessions' = MapSet(sessions, sessionId, EmptyMap)
        /\ uuids' = uuids + 1
        /\ last' = [NoCall EXCEPT !.op = "beginSession", !.sessionId = sessionId]
        /\ UNCHANGED <<classes, decorators, services, made, tasks, firstRet>>

\* container.beginSession(): uuidv4() returns a value it never returned
\* before; the k-th uuid is k
BeginSession ==
    LET sessionId == uuids + 1
    IN  /\ sessionId \in SessionIds
        /\ sessionId \notin DOMAIN sessions
        /\ sessions' = MapSet(sessions, sessionId, EmptyMap)
        /\ uuids' = sessionId
        /\ last' = [NoCall EXCEPT !.op = "beginSession", !.sessionId = sessionId]
        /\ UNCHANGED <<classes, decorators, services, made, tasks, firstRet>>

\* mutant: endSession leaves the session in place
EndSessionKeeps(sessionId) ==
    /\ last' = [NoCall EXCEPT !.op = "endSession", !.sessionId = sessionId]
    /\ UNCHANGED <<classes, decorators, services, sessions, uuids, made, tasks, firstRet>>

\* mutant: endSession ends every session
EndSessionAll(sessionId) ==
    /\ sessions' = EmptyMap
    /\ last' = [NoCall EXCEPT !.op = "endSession", !.sessionId = sessionId]
    /\ firstRet' = [k \in {q \in DOMAIN firstRet : q[2] = NoSessionId} |-> firstRet[k]]
    /\ UNCHANGED <<classes, decorators, services, uuids, made, tasks>>

\* container.endSession(sessionId)
EndSession(sessionId) ==
    /\ sessions' = MapDelete(sessions, sessionId)
    /\ last' = [NoCall EXCEPT !.op = "endSession", !.sessionId = sessionId]
    /\ firstRet' = [k \in {q \in DOMAIN firstRet : q[2] # sessionId} |-> firstRet[k]]
    /\ UNCHANGED <<classes, decorators, services, uuids, made, tasks>>

\* mutant: clear() empties _services only
ClearServices ==
    /\ services' = EmptyMap
    /\ last' = [NoCall EXCEPT !.op = "clear"]
    /\ firstRet' = EmptyMap
    /\ UNCHANGED <<classes, decorators, sessions, uuids, made, tasks>>

\* container.clear()
Clear ==
    /\ services' = EmptyMap
    /\ sessions' = EmptyMap
    /\ last' = [NoCall EXCEPT !.op = "clear"]
    /\ firstRet' = EmptyMap
    /\ UNCHANGED <<classes, decorators, uuids, made, tasks>>

Next ==
    \/ \E name \in Names : Register(name, name, classes[name].lifecycle)
    \/ \E nameOrType \in NamesOrTypes(Names), sessionId \in {NoSessionId} \cup SessionIds :
          Resolve(nameOrType, sessionId)
    \/ BeginSession
    \/ \E sessionId \in SessionIds : EndSession(sessionId)
    \/ Clear

Spec == Init /\ [][Next]_vars

\* ------------------------------------------------------ @Service decorator
\* a name a service is registered under that is not the name of its class
CustomName == "X"

\* an absent property of options
Omitted == ""

\* Service() called without an argument: options is undefined
NoOptions == [defined |-> FALSE, name |-> Omitted, lifecycle |-> Omitted]

\* the object { name, lifecycle } passed to Service(options)
ServiceOptions(name, lifecycle) ==
    [defined |-> TRUE, name |-> name, lifecycle |-> lifecycle]

OptionsWritten ==
    {NoOptions, ServiceOptions(Omitted, "singleton"),
     ServiceOptions(CustomName, Omitted), ServiceOptions(CustomName, "scoped")}

\* the decorator Service(options) returned, applied to the class target: it
\* fills in the options object it holds and registers the class
Service(st, options, target) ==
    LET made1 == IF ~options.defined THEN ServiceOptions(Omitted, Omitted) ELSE options
        named == IF made1.name = Omitted THEN [made1 EXCEPT !.name = target] ELSE made1
        filled == IF named.lifecycle = Omitted
                  THEN [named EXCEPT !.lifecycle = "transient"] ELSE named
    IN  [options |-> filled,
         r |-> register(st, filled.name, target, filled.lifecycle)]

\* Service(options) is called: a decorator that holds options
ServiceCall(options) ==
    /\ Len(decorators) < MaxDecorators
    /\ decorators' = Append(decorators, [options |-> options, written |-> options,
                                         applied |-> 0, target |-> ""])
    /\ UNCHANGED <<classes, services, sessions, uuids, made, tasks, last, firstRet>>

RECURSIVE Applied(_)
\* how many classes the decorators ds have been applied to
Applied(ds) == IF ds = <<>> THEN 0 ELSE Head(ds).applied + Applied(Tail(ds))

\* decorator d is applied to the class target (@d class target { ... })
Decorate(d, target) ==
    \E s \in {Service(State(services, sessions, made), decorators[d].options, target)} :
        /\ Applied(decorators) < MaxApplied
        /\ s.r.st.made <= MaxInst
        /\ services' = s.r.st.services
        /\ sessions' = s.r.st.sessions
        /\ made' = s.r.st.made
        /\ decorators' = [decorators EXCEPT ![d].options = s.options,
                                            ![d].applied = @ + 1,
                                            ![d].target = target]
        /\ last' = Outcome("register", s.options.name, NoSessionId, s.r)
        /\ UNCHANGED <<classes, uuids, tasks, firstRet>>

ServicePrograms == {SharingProgram}

InitService == Init /\ classes \in ServicePrograms

NextService ==
    \/ \E options \in OptionsWritten : ServiceCall(options)
    \/ \E d \in DOMAIN decorators, target \in Names : Decorate(d, target)
    \/ \E nameOrType \in NamesOrTypes(Names \cup {CustomName}),
          sessionId \in {NoSessionId} \cup SessionIds :
          Resolve(nameOrType, sessionId)
    \/ BeginSession
    \/ \E sessionId \in SessionIds : EndSession(sessionId)
    \/ Clear

SpecService == InitService /\ [][NextService]_vars

\* ------------------------------------------------ asynchronous container
\* An async function runs until it returns or reaches an await.  A call in
\* flight is the stack of its suspended functions, outermost first: the
\* innermost one awaits a promise that is already settled with val, and
\* every other one awaits the function above it.

\* a suspended async function: which one, the ServiceModel and sessionId it
\* holds, and for createInstanceAsync the dependencies resolved so far
\* (args) and those still to resolve (rest)
Frame(fn, service, sessionId, args, rest) ==
    [fn |-> fn, service |-> service, sessionId |-> sessionId,
     args |-> args, rest |-> rest]

\* the function returned val (err: what it wrote to console.error)
Done(val, err, st) ==
    [done |-> TRUE, err |-> err, name |-> "", dep |-> "", val |-> val,
     frames |-> <<>>, st |-> st]

\* `await callee` in the function that becomes frame: the callee has run up
\* to its own first await, or to its end
Await(frame, callee) ==
    [done |-> FALSE, err |-> "", name |-> "", dep |-> "", val |-> callee.val,
     frames |-> <<frame>> \o callee.frames, st |-> callee.st]

RECURSIVE resolveAsync(_, _, _), createInstanceAsync(_, _, _, _, _)

\* _createInstanceAsync(service, sessionId), from the dependency deps[1] on
createInstanceAsync(st, service, sessionId, args, deps) ==
    IF deps = <<>>
    THEN LET c == Construct(st, service, args) IN Done(c.val, "", c.st)
    ELSE LET dependency == Head(deps) IN
         IF dependency = ContainerName
         THEN createInstanceAsync(st, service, sessionId,
                                  Append(args, ContainerRef), Tail(deps))
         ELSE IF dependency \notin DOMAIN st.services
         THEN createInstanceAsync(st, service, sessionId,
                                  Append(args, Undefined), Tail(deps))
         ELSE IF ScopedIntoSingleton(service, st.services[dependency])
         THEN createInstanceAsync(st, service, sessionId,
                                  Append(args, Undefined), Tail(deps))
         ELSE Await(Frame("createInstanceAsync", service, sessionId, args, Tail(deps)),
                    resolveAsync(st, dependency, sessionId))

\* resolveAsync(nameOrType, sessionId), up to its first await
resolveAsync(st, serviceName, sessionId) ==
    IF serviceName \notin DOMAIN st.services
    THEN Done(Undefined, "NotFound", st)
    ELSE LET service == st.services[serviceName]
             frame == Frame("resolveAsync", service, sessionId, <<>>, <<>>)
             created == createInstanceAsync(st, service, sessionId, <<>>,
                                            classes[service.classType].paramtypes)
         IN  IF service.lifecycle = "singleton"
             THEN IF service.instance = Undefined
                  THEN Await(frame, created)
                  ELSE Done(service.instance, "", st)
             ELSE IF service.lifecycle = "transient"
             THEN Await(frame, created)
             ELSE IF sessionId = NoSessionId
             THEN Done(Undefined, "ScopeRequired", st)
             ELSE IF sessionId \notin DOMAIN st.sessions
             THEN Done(Undefined, "UnknownScope", st)
             ELSE IF serviceName \notin DOMAIN st.sessions[sessionId]
             THEN Await(frame, created)
             ELSE Done(EntryInstance(st, sessionId, serviceName), "", st)

\* registerAsync(name, classType, lifecycle), up to its first await
registerAsync(st, name, classType, lifecycle) ==
    IF AlreadyRegistered(st, name)
    THEN Done(Undefined, "DuplicateService", st)
    ELSE LET service == ServiceModel(name, classType, lifecycle) IN
         IF lifecycle = "singleton"
         THEN Await(Frame("registerAsync", service, NoSessionId, <<>>, <<>>),
                    createInstanceAsync(st, service, NoSessionId, <<>>,
                                        classes[classType].paramtypes))
         ELSE Done(Undefined, "", [st EXCEPT !.services = MapSet(@, name, service)])

\* this._services.set(name, service), after service.instance = instance
InsertService(st, service, instance) ==
    [st EXCEPT !.services = MapSet(@, service.name, [service EXCEPT !.instance = instance])]

\* what a suspended function does when the promise it awaits yields val
resume(st, frame, val) ==
    LET service == frame.service
        name == service.name
    IN  IF frame.fn = "createInstanceAsync"
        THEN createInstanceAsync(st, service, frame.sessionId,
                                 Append(frame.args, val), frame.rest)
        ELSE IF frame.fn = "registerAsync"
        THEN Done(Undefined, "", InsertService(st, service, val))
        ELSE IF service.lifecycle = "singleton"
        THEN \* service.instance = ...: seen in _services when the object the
             \* call holds is still the one stored there
             Done(val, "",
                  IF name \in DOMAIN st.services /\ st.services[name] = service
                  THEN SetInstance(st, name, val) ELSE st)
        ELSE IF service.lifecycle = "transient"
        THEN Done(val, "", st)
        ELSE \* session.services.set(service.name, { ...service, instance }),
             \* on the session object the call holds
             Done(val, "",
                  IF frame.sessionId \in DOMAIN st.sessions
                  THEN [st EXCEPT !.sessions[frame.sessionId] =
                                      MapSet(@, name, OwnEntry(val))]
                  ELSE st)

\* a call in flight
Task(op, name, sessionId, r) ==
    [op |-> op, name |-> name, sessionId |-> sessionId,
     stack |-> r.frames, val |-> r.val]

RemoveAt(seq, i) == SubSeq(seq, 1, i - 1) \o SubSeq(seq, i + 1, Len(seq))

\* container.registerAsync(name, classType, lifecycle) is called
RegisterAsync(name, classType, lifecycle) ==
    \E r \in {registerAsync(State(services, sessions, made), name, classType,
                            lifecycle)} :
        /\ r.st.made <= MaxInst
        /\ r.done \/ Len(tasks) < MaxTasks
        /\ services' = r.st.services
        /\ sessions' = r.st.sessions
        /\ made' = r.st.made
        /\ tasks' = IF r.done THEN tasks
                    ELSE Append(tasks, Task("register", name, NoSessionId, r))
        /\ last' = IF r.done THEN Outcome("register", name, NoSessionId, r) ELSE last
        /\ UNCHANGED <<classes, decorators, uuids, firstRet>>

\* container.resolveAsync(nameOrType, sessionId) is called
ResolveAsync(serviceName, sessionId) ==
    \E r \in {resolveAsync(State(services, sessions, made), serviceName, sessionId)} :
        /\ r.st.made <= MaxInst
        /\ r.done \/ Len(tasks) < MaxTasks
        /\ services' = r.st.services
        /\ sessions' = r.st.sessions
        /\ made' = r.st.made
        /\ tasks' = IF r.done THEN tasks
                    ELSE Append(tasks, Task("resolve", serviceName, sessionId, r))
        /\ last' = IF r.done THEN Outcome("resolve", serviceName, sessionId, r) ELSE last
        /\ firstRet' = IF r.done THEN NoteFirst(firstRet, serviceName, sessionId, r)
                       ELSE firstRet
        /\ UNCHANGED <<classes, decorators, uuids>>

\* the event loop resumes the innermost suspended function of call i
Continue(i) ==
    LET task == tasks[i]
        below == SubSeq(task.stack, 1, Len(task.stack) - 1)
    IN  \E r \in {resume(State(services, sessions, made),
                         task.stack[Len(task.stack)], task.val)} :
        /\ r.st.made <= MaxInst
        /\ services' = r.st.services
        /\ sessions' = r.st.sessions
        /\ made' = r.st.made
        /\ IF r.done /\ below = <<>>
           THEN /\ tasks' = RemoveAt(tasks, i)
                /\ last' = Outcome(task.op, task.name, task.sessionId, r)
                /\ firstRet' = IF task.op = "resolve"
                               THEN NoteFirst(firstRet, task.name, task.sessionId, r)
                               ELSE firstRet
           ELSE /\ tasks' = [tasks EXCEPT ![i].stack = below \o r.frames,
                                          ![i].val = r.val]
                /\ UNCHANGED <<last, firstRet>>
        /\ UNCHANGED <<classes, decorators, uuids>>

AsyncPrograms == {OrderProgram}

InitAsync == Init /\ classes \in AsyncPrograms

NextAsync ==
    \/ \E name \in Names : RegisterAsync(name, name, classes[name].lifecycle)
    \/ \E name \in Names, sessionId \in {NoSessionId} \cup SessionIds :
          ResolveAsync(name, sessionId)
    \/ \E i \in DOMAIN tasks : Continue(i)
    \/ BeginSession
    \/ \E sessionId \in SessionIds : EndSession(sessionId)
    \/ Clear

SpecAsync == InitAsync /\ [][NextAsync]_vars

\* ------------------------------- asynchronous container, session-first revision
\* The revision of the async container whose register is synchronous and
\* stores a descriptor without an instance, and whose resolveAsync looks at
\* the sessionId before it looks at the lifecycle.

RECURSIVE resolveAsyncSession(_, _, _), createInstanceAsyncSession(_, _, _, _, _)

\* _createInstanceAsync(service, sessionId), from the dependency deps[1] on
createInstanceAsyncSession(st, service, sessionId, args, deps) ==
    IF deps = <<>>
    THEN LET c == Construct(st, service, args) IN Done(c.val, "", c.st)
    ELSE LET dependency == Head(deps) IN
         IF dependency = ContainerName
         THEN createInstanceAsyncSession(st, service, sessionId,
                                         Append(args, ContainerRef), Tail(deps))
         ELSE IF dependency \notin DOMAIN st.services
         THEN createInstanceAsyncSession(st, service, sessionId,
                                         Append(args, Undefined), Tail(deps))
         ELSE IF ScopedIntoSingleton(service, st.services[dependency])
         THEN createInstanceAsyncSession(st, service, sessionId,
                                         Append(args, Undefined), Tail(deps))
         ELSE Await(Frame("createInstanceAsync", service, sessionId, args, Tail(deps)),
                    resolveAsyncSession(st, dependency, sessionId))

\* mutant: inside a session a service of any lifecycle is created and kept
\* in the session
resolveAsyncAnyInSession(st, serviceName, sessionId) ==
    IF sessionId # NoSessionId
    THEN IF sessionId \notin DOMAIN st.sessions
         THEN Done(Undefined, "UnknownScope", st)
         ELSE IF serviceName \in DOMAIN st.sessions[sessionId]
         THEN Done(EntryInstance(st, sessionId, serviceName), "", st)
         ELSE IF serviceName \notin DOMAIN st.services
         THEN Done(Undefined, "NotFound", st)
         ELSE LET newService == ServiceModel(serviceName,
                                             st.services[serviceName].classType,
                                             "scoped")
              IN  Await(Frame("resolveAsync", newService, sessionId, <<>>, <<>>),
                        createInstanceAsyncSession(st, newService, sessionId, <<>>,
                            classes[newService.classType].paramtypes))
    ELSE IF serviceName \notin DOMAIN st.services
    THEN Done(Undefined, "NotFound", st)
    ELSE LET service == st.services[serviceName]
             frame == Frame("resolveAsync", service, NoSessionId, <<>>, <<>>)
             created == createInstanceAsyncSession(st, service, NoSessionId, <<>>,
                            classes[service.classType].paramtypes)
         IN  IF service.lifecycle = "singleton"
             THEN IF service.instance = Undefined
                  THEN Await(frame, created)
                  ELSE Done(service.instance, "", st)
             ELSE IF service.lifecycle = "transient"
             THEN Await(frame, created)
             ELSE Done(Undefined, "ScopeRequired", st)

\* resolveAsync(nameOrType, sessionId), up to its first await
resolveAsyncSession(st, serviceName, sessionId) ==
    IF sessionId # NoSessionId
    THEN IF sessionId \notin DOMAIN st.sessions
         THEN Done(Undefined, "UnknownScope", st)
         ELSE IF serviceName \in DOMAIN st.sessions[sessionId]
         THEN Done(EntryInstance(st, sessionId, serviceName), "", st)
         ELSE IF serviceName \notin DOMAIN st.services
         THEN Done(Undefined, "NotFound", st)
         ELSE IF st.services[serviceName].lifecycle # "scoped"
         THEN Done(Undefined, "NotScoped", st)
         ELSE LET newService == ServiceModel(serviceName,
                                             st.services[serviceName].classType,
                                             "scoped")
              IN  Await(Frame("resolveAsync", newService, sessionId, <<>>, <<>>),
                        createInstanceAsyncSession(st, newService, sessionId, <<>>,
                            classes[newService.classType].paramtypes))
    ELSE IF serviceName \notin DOMAIN st.services
    THEN Done(Undefined, "NotFound", st)
    ELSE LET service == st.services[serviceName]
             frame == Frame("resolveAsync", service, NoSessionId, <<>>, <<>>)
             created == createInstanceAsyncSession(st, service, NoSessionId, <<>>,
                            classes[service.classType].paramtypes)
         IN  IF service.lifecycle = "singleton"
             THEN IF service.instance = Undefined
                  THEN Await(frame, created)
                  ELSE Done(service.instance, "", st)
             ELSE IF service.lifecycle = "transient"
             THEN Await(frame, created)
             ELSE Done(Undefined, "ScopeRequired", st)

\* Reflect.getMetadata('ck:service', classType) of a class no decorator
\* has marked
NoMetadata == ""

\* register(name, classType, lifecycle); metadata is what the class carries
\* under 'ck:service'
registerSession(st, name, classType, lifecycle, metadata) ==
    IF AlreadyRegistered(st, name)
    THEN Done(Undefined, "DuplicateService", st)
    ELSE IF metadata = NoMetadata \/ metadata # name
    THEN Done(Undefined, "NotDecorated", st)
    ELSE Done(Undefined, "",
              [st EXCEPT !.services =
                             MapSet(@, name, ServiceModel(name, classType, lifecycle))])

\* what a suspended function does when the promise it awaits yields val
resumeSession(st, frame, val) ==
    LET service == frame.service
        name == service.name
    IN  IF frame.fn = "createInstanceAsync"
        THEN createInstanceAsyncSession(st, service, frame.sessionId,
                                        Append(frame.args, val), frame.rest)
        ELSE IF frame.sessionId # NoSessionId
        THEN \* newService.instance = ...; session.services.set(serviceName,
             \* newService), on the session object the call holds
             Done(val, "",
                  IF frame.sessionId \in DOMAIN st.sessions
                  THEN [st EXCEPT !.sessions[frame.sessionId] =
                                      MapSet(@, name, OwnEntry(val))]
                  ELSE st)
        ELSE IF service.lifecycle = "singleton"
        THEN \* service.instance = ...: seen in _services when the object the
             \* call holds is still the one stored there
             Done(val, "",
                  IF name \in DOMAIN st.services /\ st.services[name] = service
                  THEN SetInstance(st, name, val) ELSE st)
        ELSE Done(val, "", st)

\* container.register(name, classType, lifecycle) is called
RegisterSession(name, classType, lifecycle, metadata) ==
    \E r \in {registerSession(State(services, sessions, made), name, classType,
                              lifecycle, metadata)} :
        /\ services' = r.st.services
        /\ sessions' = r.st.sessions
        /\ made' = r.st.made
        /\ last' = Outcome("register", name, NoSessionId, r)
        /\ UNCHANGED <<classes, decorators, uuids, tasks, firstRet>>

\* container.resolveAsync(nameOrType, sessionId) is called
ResolveAsyncSession(serviceName, sessionId) ==
    \E r \in {resolveAsyncSession(State(services, sessions, made), serviceName,
                                  sessionId)} :
        /\ r.st.made <= MaxInst
        /\ r.done \/ Len(tasks) < MaxTasks
        /\ services' = r.st.services
        /\ sessions' = r.st.sessions
        /\ made' = r.st.made
        /\ tasks' = IF r.done THEN tasks
                    ELSE Append(tasks, Task("resolve", serviceName, sessionId, r))
        /\ last' = IF r.done THEN Outcome("resolve", serviceName, sessionId, r) ELSE last
        /\ firstRet' = IF r.done THEN NoteFirst(firstRet, serviceName, sessionId, r)
                       ELSE firstRet
        /\ UNCHANGED <<classes, decorators, uuids>>

\* the event loop resumes the innermost suspended function of call i
ContinueSession(i) ==
    LET task == tasks[i]
        below == SubSeq(task.stack, 1, Len(task.stack) - 1)
    IN  \E r \in {resumeSession(State(services, sessions, made),
                                task.stack[Len(task.stack)], task.val)} :
        /\ r.st.made <= MaxInst
        /\ services' = r.st.services
        /\ sessions' = r.st.sessions
        /\ made' = r.st.made
        /\ IF r.done /\ below = <<>>
           THEN /\ tasks' = RemoveAt(tasks, i)
                /\ last' = Outcome(task.op, task.name, task.sessionId, r)
                /\ firstRet' = NoteFirst(firstRet, task.name, task.sessionId, r)
           ELSE /\ tasks' = [tasks EXCEPT ![i].stack = below \o r.frames,
                                          ![i].val = r.val]
                /\ UNCHANGED <<last, firstRet>>
        /\ UNCHANGED <<classes, decorators, uuids>>

NextSession ==
    \/ \E name \in Names, metadata \in {NoMetadata} \cup Names :
          RegisterSession(name, name, classes[name].lifecycle, metadata)
    \/ \E name \in Names, sessionId \in {NoSessionId} \cup SessionIds :
          ResolveAsyncSession(name, sessionId)
    \/ \E i \in DOMAIN tasks : ContinueSession(i)
    \/ BeginSession
    \/ \E sessionId \in SessionIds : EndSession(sessionId)
    \/ Clear

SpecSession == InitAsync /\ [][NextSession]_vars

\* ------------------------------------------------------------ properties
\* the last call was resolve(name, sessionId) and returned an instance
Resolved == last.op = "resolve" /\ last.err = ""

\* the lifecycle the service was registered with
LifecycleOf(name) ==
    IF name \in DOMAIN services THEN services[name].lifecycle ELSE "none"

\* C1: two successful resolve(X, h) calls of a Scoped service X made while
\* the scope h stays active return the same instance, whatever happens
\* between them.
C1_ScopedSameInstance ==
    (Resolved /\ LifecycleOf(last.name) = "scoped")
        => last.val.id = firstRet[ShareKey(last.name, last.sessionId)].id

\* C2: a Scoped service held by two distinct active scopes is a different
\* instance in each: resolve(X, h1) never returns what resolve(X, h2) returns.
C2_ScopeIsolation ==
    \A name \in DOMAIN services : \A h1, h2 \in DOMAIN sessions :
        (/\ h1 # h2
         /\ services[name].lifecycle = "scoped"
         /\ name \in DOMAIN sessions[h1]
         /\ name \in DOMAIN sessions[h2])
        => LET st == State(services, sessions, made)
           IN  resolve(st, name, h1, 1).val.id # resolve(st, name, h2, 1).val.id

\* C3: every resolve(S) of a Singleton without a scope returns the same
\* instance, the one cached on the descriptor, and no call but clear()
\* replaces the cached instance.
C3_ReturnsCached ==
    (Resolved /\ LifecycleOf(last.name) = "singleton" /\ last.sessionId = NoSessionId)
        => /\ last.val.id = firstRet[ShareKey(last.name, NoSessionId)].id
           /\ last.val = services[last.name].instance

C3_NeverReplaced ==
    \A name \in DOMAIN services :
        (/\ services[name].lifecycle = "singleton"
         /\ services[name].instance # Undefined
         /\ last'.op # "clear")
        => /\ name \in DOMAIN services'
           /\ services'[name].instance = services[name].instance

C3_SingletonStable == []C3_ReturnsCached /\ [][C3_NeverReplaced]_vars

\* a Singleton is returned again after other objects were constructed
C3_Witness ==
    /\ Resolved /\ LifecycleOf(last.name) = "singleton"
    /\ last.sessionId = NoSessionId
    /\ last.val.id = 1 /\ made = MaxInst

\* C4: a resolve of a Transient, with or without a scope handle, returns an
\* instance constructed during that call (so distinct from every instance
\* returned before, the previous call's included), and no Transient instance
\* is kept on a descriptor or in a scope.
C4_FreshInstance ==
    (/\ last'.op = "resolve" /\ last'.err = ""
     /\ LifecycleOf(last'.name) = "transient")
    => /\ last'.val.id > made
       /\ last'.val.id # last.val.id

C4_NotStored ==
    /\ \A name \in DOMAIN services :
          services[name].instance # Undefined
              => LifecycleOf(services[name].instance.name) # "transient"
    /\ \A h \in DOMAIN sessions : \A name \in DOMAIN sessions[h] :
          LifecycleOf(EntryInstance(State(services, sessions, made), h, name).name)
              # "transient"

C4_TransientFresh == []C4_NotStored /\ [][C4_FreshInstance]_vars

\* the Transient C, the only class of CycleProgram that can be constructed,
\* resolved with a scope handle after earlier instances of it
C4_Witness ==
    /\ classes = CycleProgram
    /\ Resolved /\ last.name = "C" /\ LifecycleOf("C") = "transient"
    /\ last.sessionId \in DOMAIN sessions
    /\ last.val.id = MaxInst

\* services a and b declare each other: a -> b -> a
TwoCycle(a, b) ==
    /\ a # b /\ {a, b} \subseteq DOMAIN services
    /\ {services[a].lifecycle, services[b].lifecycle} \subseteq {"transient", "scoped"}
    /\ classes[services[a].classType].paramtypes = <<b>>
    /\ classes[services[b].classType].paramtypes = <<a>>

\* C5: resolving a service that lies on a dependency cycle A -> B -> A
\* (A and B Transient or Scoped, a scope supplied where one is required)
\* fails with CircularDependency.
C5_CycleDetected ==
    (/\ last.op = "resolve"
     /\ \E b \in Names : TwoCycle(last.name, b)
     /\ last.err \notin {"ScopeRequired", "UnknownScope"})
    => last.err = "CircularDependency"

C7_ScopedOnce ==
    (/\ Resolved /\ LifecycleOf(last.name) = "scoped"
     /\ last.sessionId \in DOMAIN sessions)
        => last.val.id = firstRet[ShareKey(last.name, last.sessionId)].id

\* C8: registerAsync is atomic in the name: the ServiceModel stored under a
\* name is never overwritten by another registerAsync of that name; only
\* clear() removes it.
C8_Step ==
    \A name \in DOMAIN services :
        last'.op # "clear"
        => /\ name \in DOMAIN services'
           /\ services'[name] = services[name]

C8_AtomicRegistration == [][C8_Step]_vars

\* C9: register of a name that is already registered fails with
\* DuplicateService and changes nothing in the container.
C9_Step ==
    (last'.op = "register" /\ last'.name \in DOMAIN services)
    => /\ last'.err = "DuplicateService"
       /\ services' = services
       /\ sessions' = sessions
       /\ made' = made

C9_DuplicateRejected == [][C9_Step]_vars

\* a second registration of a Singleton that holds its instance
C9_Witness ==
    /\ last.op = "register" /\ last.err = "DuplicateService"
    /\ LifecycleOf(last.name) = "singleton"
    /\ services[last.name].instance # Undefined

\* the declared dependencies of the class registered last
LastDeps == classes[last.name].paramtypes

\* positions of LastDeps that name a registered Scoped service
ScopedDeps == {i \in DOMAIN LastDeps : LifecycleOf(LastDeps[i]) = "scoped"}

\* the last call was the registration of a Singleton that declares a
\* registered Scoped service
SingletonWithScopedDep ==
    /\ last.op = "register"
    /\ classes[last.name].lifecycle = "singleton"
    /\ ScopedDeps # {}

\* C10, as stated: a Singleton whose declared dependencies include a
\* registered Scoped service is rejected with IllegalScopedInjection.
C10_AlwaysIllegalInjection ==
    SingletonWithScopedDep => last.err = "IllegalScopedInjection"

\* the dependencies declared before position i all resolve
ResolveBefore(i) ==
    mapDependencies(State(services, sessions, made),
                    ServiceModel(last.name, last.name, "singleton"),
                    NoSessionId, SubSeq(LastDeps, 1, i - 1), <<>>, 1).err = ""

\* C10, amended: the registration of such a Singleton always fails; the error
\* is IllegalScopedInjection, naming the Singleton and the Scoped service,
\* when every dependency declared before the first Scoped one resolves, and
\* the error of an earlier dependency otherwise.  No registered Singleton
\* holds an instance built with a Scoped service or with undefined as an
\* argument.
C10_ScopedRejected ==
    /\ SingletonWithScopedDep =>
          LET i == CHOOSE k \in ScopedDeps : \A j \in ScopedDeps : k <= j
          IN  /\ last.err # ""
              /\ last.name \notin DOMAIN services
              /\ ResolveBefore(i) =>
                    /\ last.err = "IllegalScopedInjection"
                    /\ last.about = <<last.name, LastDeps[i]>>
              /\ ~ResolveBefore(i) => last.err # "IllegalScopedInjection"
    /\ \A name \in DOMAIN services :
          services[name].lifecycle = "singleton" =>
              \A k \in DOMAIN services[name].instance.args :
                  LET arg == services[name].instance.args[k]
                  IN  arg # Undefined /\ LifecycleOf(arg.name) # "scoped"

\* a Singleton rejected for its second dependency, after its first resolved
C10_Witness ==
    /\ SingletonWithScopedDep
    /\ last.err = "IllegalScopedInjection"
    /\ \E i \in ScopedDeps : i > 1 /\ ResolveBefore(i)

\* the services name reaches through declared dependencies, itself included
RECURSIVE Reaches(_, _)
Reaches(name, n) ==
    IF n = 0 \/ name \notin Names THEN {name}
    ELSE {name} \cup UNION {Reaches(classes[name].paramtypes[i], n - 1) :
                               i \in DOMAIN classes[name].paramtypes}

\* the last call was the registration of a Singleton whose only way to a
\* Scoped service leads through another registered service
SingletonReachesScoped ==
    /\ last.op = "register"
    /\ classes[last.name].lifecycle = "singleton"
    /\ ScopedDeps = {}
    /\ \A i \in DOMAIN LastDeps : LastDeps[i] \in DOMAIN services
    /\ \E x \in Reaches(last.name, Cardinality(Names)) \cap DOMAIN services :
          services[x].lifecycle = "scoped"

\* C11: the registration of a Singleton that depends on a Scoped service
\* through a Transient fails with the IllegalScopedInjection error.
C11_TransitiveIllegalInjection ==
    SingletonReachesScoped => last.err = "IllegalScopedInjection"

\* C12: a register call that fails leaves the descriptor store (cached
\* Singleton instances included), the active scopes and their caches as
\* they were; unless the failure is the duplicate name, the name is not
\* registered afterwards, resolve of it fails NotFound and a later register
\* of it is not a duplicate.
C12_Step ==
    (last'.op = "register" /\ last'.err # "")
    => /\ services' = services
       /\ sessions' = sessions
       /\ last'.err # "DuplicateService" =>
             LET st == State(services', sessions', made')
             IN  /\ last'.name \notin DOMAIN services'
                 /\ resolve(st, last'.name, NoSessionId, 1).err = "NotFound"
                 /\ ~AlreadyRegistered(st, last'.name)

C12_FailedRegisterNoEffect == [][C12_Step]_vars

\* a Singleton rejected after one of its dependencies was constructed, in a
\* container that holds a scope with a cached instance
C12_Witness ==
    /\ last.op = "register" /\ last.err = "IllegalScopedInjection"
    /\ \E h \in DOMAIN sessions : sessions[h] # EmptyMap
    /\ \E i \in DOMAIN LastDeps :
          LastDeps[i] \in DOMAIN services /\ services[LastDeps[i]].lifecycle = "transient"
    /\ made = MaxInst

\* the last call had to construct the service it names: the registration of
\* a Singleton, or the resolve of a registered Transient
Constructing ==
    \/ /\ last.op = "register" /\ last.err # "DuplicateService"
       /\ classes[last.name].lifecycle = "singleton"
    \/ /\ last.op = "resolve" /\ LifecycleOf(last.name) = "transient"

\* positions of LastDeps that name a service without a descriptor
MissingDeps ==
    {i \in DOMAIN LastDeps :
        LastDeps[i] # ContainerName /\ LastDeps[i] \notin DOMAIN services}

\* what resolving the dependencies declared before position i comes to
DepsBefore(i) ==
    mapDependencies(State(services, sessions, made),
                    ServiceModel(last.name, last.name, classes[last.name].lifecycle),
                    last.sessionId, SubSeq(LastDeps, 1, i - 1), <<>>, 1)

\* an object constructed with one argument per declared dependency, each an
\* object of the declared class that is built the same way
RECURSIVE WellBuilt(_)
WellBuilt(instance) ==
    \/ instance = ContainerRef
    \/ /\ instance # Undefined
       /\ instance.name \in Names
       /\ DOMAIN instance.args = DOMAIN classes[instance.name].paramtypes
       /\ \A k \in DOMAIN instance.args :
             /\ instance.args[k].name = classes[instance.name].paramtypes[k]
             /\ WellBuilt(instance.args[k])

\* C13, as stated: a call that constructs a service which declares a
\* dependency without a descriptor fails with UnresolvedDependency, naming
\* the service and that dependency.
C13_AlwaysUnresolved ==
    (Constructing /\ MissingDeps # {})
    => /\ last.err = "UnresolvedDependency"
       /\ last.about[1] = last.name
       /\ \E i \in MissingDeps : last.about[2] = LastDeps[i]

\* C13, amended: such a call always fails; the error is
\* UnresolvedDependency, naming the service and its first dependency without
\* a descriptor, when every dependency declared before that one resolves,
\* and the error of the earlier dependency otherwise.  An
\* UnresolvedDependency error always names a service and a dependency it
\* declares that has no descriptor, and no object is ever constructed with
\* undefined in place of a dependency.
C13_MissingDependencyFails ==
    /\ (Constructing /\ MissingDeps # {}) =>
          LET i == CHOOSE k \in MissingDeps : \A j \in MissingDeps : k <= j
              before == DepsBefore(i)
          IN  /\ last.err # ""
              /\ before.err = "" =>
                    /\ last.err = "UnresolvedDependency"
                    /\ last.about = <<last.name, LastDeps[i]>>
              /\ before.err # "" =>
                    /\ last.err = before.err
                    /\ last.about = <<before.name, before.dep>>
    /\ last.err = "UnresolvedDependency" =>
          /\ last.about[1] \in Names
          /\ \E k \in DOMAIN classes[last.about[1]].paramtypes :
                classes[last.about[1]].paramtypes[k] = last.about[2]
          /\ last.about[2] \notin DOMAIN services
    /\ Resolved => WellBuilt(last.val)
    /\ \A name \in DOMAIN services :
          services[name].instance # Undefined => WellBuilt(services[name].instance)

\* a Singleton rejected for its second dependency, which has no descriptor,
\* after its first dependency was constructed
C13_Witness ==
    /\ last.op = "register" /\ last.err = "UnresolvedDependency"
    /\ \E i \in MissingDeps :
          i > 1 /\ last.about = <<last.name, LastDeps[i]>> /\ made > 0

\* C14: resolve of a name that has no descriptor fails with NotFound,
\* naming it, with or without a scope handle, and leaves the descriptor
\* store, the scopes and their caches as they were and constructs nothing.
C14_Step ==
    (last'.op = "resolve" /\ last'.name \notin DOMAIN services)
    => /\ last'.err = "NotFound"
       /\ last'.about = <<last'.name, "">>
       /\ services' = services
       /\ sessions' = sessions
       /\ made' = made

C14_NotFound == [][C14_Step]_vars

\* an unregistered name resolved with the handle of an active scope that
\* holds a cached instance
C14_Witness ==
    /\ last.op = "resolve" /\ last.err = "NotFound"
    /\ last.sessionId \in DOMAIN sessions
    /\ sessions[last.sessionId] # EmptyMap

\* C15: resolve of a registered Scoped service without a scope handle fails
\* with ScopeRequired, naming it, and constructs nothing.
C15_Step ==
    (/\ last'.op = "resolve" /\ last'.sessionId = NoSessionId
     /\ LifecycleOf(last'.name) = "scoped")
    => /\ last'.err = "ScopeRequired"
       /\ last'.about = <<last'.name, "">>
       /\ made' = made
       /\ services' = services
       /\ sessions' = sessions

C15_ScopeRequired == [][C15_Step]_vars

\* a Scoped service that an active scope holds, resolved without a handle
C15_Witness ==
    /\ last.op = "resolve" /\ last.err = "ScopeRequired"
    /\ last.sessionId = NoSessionId
    /\ \E h \in DOMAIN sessions : last.name \in DOMAIN sessions[h]

\* what resolving every declared dependency of the service named by the
\* last call comes to
DepsAll == DepsBefore(Len(LastDeps) + 1)

\* C16: for a registered Scoped service C and a handle h: while h is active
\* resolve(C, h) never fails for want of a scope and, the dependencies of C
\* resolving, returns the instance h holds; once h is not active,
\* resolve(C, h) fails with UnknownScope, naming h.
C16_ByScopeState ==
    (/\ last.op = "resolve" /\ LifecycleOf(last.name) = "scoped"
     /\ last.sessionId # NoSessionId)
    => IF last.sessionId \in DOMAIN sessions
       THEN /\ last.err \notin {"UnknownScope", "ScopeRequired", "NotFound"}
            /\ (last.name \in DOMAIN sessions[last.sessionId] \/ DepsAll.err = "")
               => /\ last.err = ""
                  /\ last.name \in DOMAIN sessions[last.sessionId]
                  /\ last.val = EntryInstance(State(services, sessions, made),
                                              last.sessionId, last.name)
       ELSE /\ last.err = "UnknownScope"
            /\ last.about = <<last.name, "">>

\* endSession(h) makes h inactive, whatever h holds, and a handle that was
\* issued and is not active never becomes active again
C16_Ended ==
    /\ last'.op = "endSession" => last'.sessionId \notin DOMAIN sessions'
    /\ \A h \in 1 .. uuids : h \notin DOMAIN sessions => h \notin DOMAIN sessions'

C16_ScopeLifetime == []C16_ByScopeState /\ [][C16_Ended]_vars

\* a Scoped service that was constructed in the only scope ever begun is
\* resolved with that handle after the scope has ended
C16_Witness ==
    /\ last.op = "resolve" /\ last.err = "UnknownScope"
    /\ uuids = 1 /\ last.sessionId = 1
    /\ services[last.name].instance # Undefined

\* the class of the k-th constructor parameter of an object is a Singleton
SingletonParam(instance, k) ==
    LET type == classes[instance.name].paramtypes[k]
    IN  type \in Names /\ classes[type].lifecycle = "singleton"

\* every argument of the object, and of the objects it holds, that stands
\* for a Singleton is the instance resolve returns for that Singleton
RECURSIVE HoldsSingletons(_)
HoldsSingletons(instance) ==
    \/ instance = ContainerRef
    \/ \A k \in DOMAIN instance.args :
          /\ SingletonParam(instance, k) =>
                LET type == classes[instance.name].paramtypes[k]
                    r == resolve(State(services, sessions, made), type, NoSessionId, 1)
                IN  r.err = "" /\ instance.args[k] = r.val
          /\ HoldsSingletons(instance.args[k])

\* C17: a service of any lifecycle that declares a registered Singleton A is
\* constructed with the instance resolve(A) returns, in every position that
\* declares A.
C17_SingletonShared ==
    /\ Resolved => HoldsSingletons(last.val)
    /\ \A name \in DOMAIN services :
          services[name].instance # Undefined => HoldsSingletons(services[name].instance)

\* a Transient was constructed with a Singleton and with a second Singleton
\* that declares the first one twice
C17_Witness ==
    /\ Resolved /\ LifecycleOf(last.name) = "transient"
    /\ \E k \in DOMAIN last.val.args :
          /\ SingletonParam(last.val, k)
          /\ Len(last.val.args[k].args) = 2
          /\ SingletonParam(last.val.args[k], 1)
          /\ last.val.args[k].args[1] = last.val.args[k].args[2]
    /\ last.val.id = MaxInst

\* the class of the k-th constructor parameter of an object is Scoped
ScopedParam(instance, k) ==
    LET type == classes[instance.name].paramtypes[k]
    IN  type \in Names /\ classes[type].lifecycle = "scoped"

\* every object that was constructed after the first `before` ones, among
\* the object and the objects it holds, has for each Scoped parameter the
\* instance the scope sessionId holds in st
RECURSIVE ScopedFromScope(_, _, _, _)
ScopedFromScope(instance, before, st, sessionId) ==
    \/ instance = ContainerRef
    \/ instance.id <= before
    \/ \A k \in DOMAIN instance.args :
          /\ ScopedParam(instance, k) =>
                LET type == classes[instance.name].paramtypes[k]
                    r == resolve(st, type, sessionId, 1)
                IN  /\ type \in DOMAIN st.sessions[sessionId]
                    /\ r.err = "" /\ instance.args[k] = r.val
          /\ ScopedFromScope(instance.args[k], before, st, sessionId)

\* C18: a resolve with the handle of an active scope h never fails for want
\* of a scope, at any depth, and every object it constructs, at any depth,
\* receives for a Scoped dependency X the instance that h holds for X and
\* that resolve(X, h) returns.
C18_Step ==
    (last'.op = "resolve" /\ last'.sessionId \in DOMAIN sessions)
    => /\ last'.err \notin {"ScopeRequired", "UnknownScope"}
       /\ last'.err = "" =>
             ScopedFromScope(last'.val, made, State(services', sessions', made'),
                             last'.sessionId)

C18_SameScopeToken == [][C18_Step]_vars

\* in the second scope, a Scoped service was constructed right after the
\* Scoped service it depends on
C18_Witness ==
    /\ Resolved /\ LifecycleOf(last.name) = "scoped"
    /\ last.sessionId = 2 /\ 1 \in DOMAIN sessions
    /\ last.val.id = made
    /\ \E k \in DOMAIN last.val.args :
          ScopedParam(last.val, k) /\ last.val.args[k].id = made - 1

\* every parameter of the object, and of the objects it holds, that is
\* declared as the container class holds the container
RECURSIVE HoldsContainer(_)
HoldsContainer(instance) ==
    \/ instance = ContainerRef
    \/ \A k \in DOMAIN instance.args :
          /\ classes[instance.name].paramtypes[k] = ContainerName
                => instance.args[k] = ContainerRef
          /\ HoldsContainer(instance.args[k])

\* the service declares dependencies, all of them on the container class
OnlyContainer(name) ==
    /\ name \in Names
    /\ classes[name].paramtypes # <<>>
    /\ \A k \in DOMAIN classes[name].paramtypes :
          classes[name].paramtypes[k] = ContainerName

C19_Holds ==
    /\ Resolved => HoldsContainer(last.val)
    /\ ContainerName \notin DOMAIN services
    /\ \A h \in DOMAIN sessions : ContainerName \notin DOMAIN sessions[h]

C19_Step ==
    (/\ last'.op = "resolve" /\ LifecycleOf(last'.name) = "transient"
     /\ OnlyContainer(last'.name))
    => /\ last'.err = ""
       /\ last'.val = Instance(made + 1, last'.name,
                               [k \in DOMAIN classes[last'.name].paramtypes |-> ContainerRef])
       /\ made' = made + 1
       /\ services' = services
       /\ sessions' = sessions

\* C19: a dependency declared as the container class is supplied with the
\* container, although no descriptor has that name: the resolve of a
\* Transient that declares nothing else succeeds, constructs that one object
\* and leaves the descriptor store and the scopes alone, and nothing is ever
\* stored under the name of the container class.
C19_ContainerInjected == []C19_Holds /\ [][C19_Step]_vars

\* a service that declares the container is resolved with the handle of a
\* scope that holds a cached instance
C19_Witness ==
    /\ Resolved /\ OnlyContainer(last.name)
    /\ last.val.args[1] = ContainerRef
    /\ last.sessionId \in DOMAIN sessions
    /\ sessions[last.sessionId] # EmptyMap

\* clear() leaves no descriptor and no scope: the resolve of every name that
\* was registered fails with NotFound, with or without a handle
C20_Cleared ==
    last'.op = "clear"
    => /\ services' = EmptyMap
       /\ sessions' = EmptyMap
       /\ \A name \in DOMAIN services, sessionId \in {NoSessionId} \cup SessionIds :
             resolve(State(services', sessions', made'), name, sessionId, 1).err
                = "NotFound"

\* a handle that is not active is not made active by any call, a
\* registration included
C20_StaysInactive ==
    \A h \in SessionIds : (h <= uuids /\ h \notin DOMAIN sessions)
                            => h \notin DOMAIN sessions'

\* the resolve of a registered Scoped service with a handle that was issued
\* and is not active fails with UnknownScope
C20_OldHandle ==
    \A name \in DOMAIN services, h \in SessionIds :
        (/\ services[name].lifecycle = "scoped"
         /\ h <= uuids /\ h \notin DOMAIN sessions)
        => resolve(State(services, sessions, made), name, h, 1).err = "UnknownScope"

\* C20: after clear() the descriptor store is empty and no scope is active;
\* the names registered before fail with NotFound, every handle issued
\* before stays inactive, and the resolve of a Scoped service registered
\* again fails with UnknownScope for such a handle.
C20_ClearEndsAll ==
    /\ [][C20_Cleared /\ C20_StaysInactive]_vars
    /\ []C20_OldHandle

\* a Scoped service whose descriptor was replaced after an instance of it
\* had been constructed, that is registered again after clear(), is resolved
\* with the only handle ever issued
C20_Witness ==
    /\ last.op = "resolve" /\ last.err = "UnknownScope"
    /\ uuids = 1 /\ last.sessionId = 1
    /\ classes = TransitiveProgram /\ made > 0
    /\ services[last.name].instance = Undefined

\* the name whose registration this step started or finished without an
\* error: the decorator of the class has returned
Decorated ==
    IF Len(tasks') > Len(tasks) /\ tasks'[Len(tasks')].op = "register"
    THEN {tasks'[Len(tasks')].name}
    ELSE IF last'.op = "register" /\ last'.err = "" /\ Len(tasks') = Len(tasks)
    THEN {last'.name}
    ELSE {}

\* C21: when the @Service decorator of a class has returned, a resolve of
\* the name of the class issued before anything else runs finds the
\* descriptor: it does not fail with NotFound, whatever the lifecycle.
C21_Step ==
    \A name \in Decorated :
        /\ name \in DOMAIN services'
        /\ resolveAsync(State(services', sessions', made'), name, NoSessionId).err
              # "NotFound"

C21_CompleteOnReturn == [][C21_Step]_vars

\* C22: in the session-first async container, resolveAsync(name, sessionId)
\* with an active session yields undefined for every service registered as
\* singleton or transient, at once and without creating or storing
\* anything; what a resolveAsync with a sessionId does yield is an instance
\* of a scoped service.
C22_NotScoped ==
    \A name \in DOMAIN services, sessionId \in DOMAIN sessions :
        services[name].lifecycle # "scoped"
            => LET st == State(services, sessions, made)
                   r == resolveAsyncSession(st, name, sessionId)
               IN  r.done /\ r.val = Undefined /\ r.st = st

C22_OnlyScopedInSession ==
    /\ C22_NotScoped
    /\ (last.op = "resolve" /\ last.sessionId # NoSessionId /\ last.val # Undefined)
           => classes[last.val.name].lifecycle = "scoped"

C22_Witness ==
    /\ last.op = "resolve"
    /\ last.err = "NotScoped"
    /\ last.val = Undefined
    /\ last.name \in DOMAIN services
    /\ last.sessionId \in DOMAIN sessions
    /\ \E name \in DOMAIN services :
           /\ services[name].lifecycle = "singleton"
           /\ services[name].instance # Undefined

\* C23: resolving by type and resolving by name are the same lookup: in
\* every container state resolve(K, s) and resolve(K.name, s) have the same
\* outcome for every class K and every s, and a service registered under a
\* custom name is found under that name and is an instance of its class.
C23_SameLookup ==
    LET st == State(services, sessions, made)
    IN  \A sessionId \in {NoSessionId} \cup SessionIds :
            /\ \A K \in Names :
                   resolveNameOrType(st, Type(K), sessionId)
                       = resolveNameOrType(st, Str(K), sessionId)
            /\ \A name \in DOMAIN services :
                   LET r == resolveNameOrType(st, Str(name), sessionId)
                   IN  /\ r.err # "NotFound"
                       /\ r.err = "" => r.val.name = services[name].classType

C23_ByName ==
    (last.op = "resolve" /\ last.err = "" /\ last.name \in DOMAIN services)
        => last.val.name = services[last.name].classType

C23_TypeOrName == C23_SameLookup /\ C23_ByName

\* a service registered under a custom name has been resolved by that name,
\* and a class registered under its own name resolves by type
C23_Witness ==
    /\ last.op = "resolve" /\ last.err = "" /\ last.name = CustomName
    /\ CustomName \in DOMAIN services
    /\ last.val.name = services[CustomName].classType
    /\ \E K \in Names :
           /\ K \in DOMAIN services
           /\ resolveNameOrType(State(services, sessions, made), Type(K),
                                NoSessionId).err = ""

\* C24: a class decorated with @Service whose options were written without
\* a name is registered under its class name, and one whose options were
\* written without a lifecycle is registered as transient: two resolves of
\* it return distinct instances.
C24_Step ==
    \A d \in DOMAIN decorators :
        decorators'[d].applied = decorators[d].applied + 1
            => LET written == decorators[d].written
                   target == decorators'[d].target
                   st == State(services', sessions', made')
                   r1 == resolveNameOrType(st, Str(last'.name), NoSessionId)
                   r2 == resolveNameOrType(r1.st, Str(last'.name), NoSessionId)
               IN  /\ written.name = Omitted
                       => /\ last'.name = target
                          /\ last'.err = ""
                                 => /\ target \in DOMAIN services'
                                    /\ services'[target].classType = target
                   /\ (written.lifecycle = Omitted /\ last'.err = "")
                       => /\ services'[last'.name].lifecycle = "transient"
                          /\ (r1.err = "" /\ r2.err = "") => r1.val # r2.val

C24_DefaultNameTransient == [][C24_Step]_vars

\* the errors a resolve call can end with
ResolveErrors ==
    {"NotFound", "ScopeRequired", "UnknownScope", "UnresolvedDependency",
     "IllegalScopedInjection", "RangeError"}

RECURSIVE ValidChain(_, _, _)
ValidChain(name, sessionId, n) ==
    /\ n > 0
    /\ name \in DOMAIN services
    /\ services[name].lifecycle = "scoped" => sessionId \in DOMAIN sessions
    /\ LET deps == classes[services[name].classType].paramtypes
       IN  \A i \in DOMAIN deps :
               \/ deps[i] = ContainerName
               \/ /\ ValidChain(deps[i], sessionId, n - 1)
                  /\ ~ScopedIntoSingleton(services[name], services[deps[i]])

\* C26, in every state: a registered service whose dependency chain is
\* valid resolves, whatever calls failed before.
C26_ValidResolves ==
    \A name \in DOMAIN services, sessionId \in {NoSessionId} \cup SessionIds :
        ValidChain(name, sessionId, MaxDepth)
            => resolve(State(services, sessions, made), name, sessionId, 1).err = ""

\* C26, for the failed call: a resolve that succeeds before a failed
\* resolve or register call succeeds after it.
C26_Step ==
    (last'.op \in {"resolve", "register"} /\ last'.err # "")
        => \A name \in DOMAIN services, sessionId \in {NoSessionId} \cup SessionIds :
               resolve(State(services, sessions, made), name, sessionId, 1).err = ""
                   => resolve(State(services', sessions', made'), name, sessionId,
                              1).err = ""

\* C26: the container remains usable after an error.
C26_UsableAfterError == []C26_ValidResolves /\ [][C26_Step]_vars

\* a call has just failed, and a service with dependencies and a valid
\* chain is registered
C26_Witness ==
    /\ last.op \in {"resolve", "register"}
    /\ last.err \in {"UnresolvedDependency", "IllegalScopedInjection", "RangeError"}
    /\ \E name \in DOMAIN services, sessionId \in DOMAIN sessions :
           /\ classes[name].paramtypes # <<>>
           /\ name # last.name
           /\ ValidChain(name, sessionId, MaxDepth)

\* C27: a resolve call that fails leaves the container state unchanged: the
\* descriptors and their cached instances, the active scopes and the
\* instance cache of every scope are what they were before the call.
C27_Step ==
    (last'.op = "resolve" /\ last'.err # "")
        => /\ services' = services
           /\ sessions' = sessions

C27_FailedResolveNoEffect == [][C27_Step]_vars

\* argument i of the constructor call that built instance is an object of
\* the class declared at position i, for every i, and so down the chain
RECURSIVE Positional(_)
Positional(instance) ==
    \/ instance = ContainerRef
    \/ LET deps == classes[instance.name].paramtypes
       IN  /\ Len(instance.args) = Len(deps)
           /\ \A i \in DOMAIN deps :
                  /\ instance.args[i].name = deps[i]
                  /\ Positional(instance.args[i])

\* C28: the constructor of a service receives its resolved dependencies
\* positionally in declaration order: every instance a resolve returns and
\* every instance the container keeps was built with argument i being the
\* resolution of the i-th declared dependency.
C28_DeclarationOrder ==
    /\ Resolved => Positional(last.val)
    /\ \A name \in DOMAIN services :
           services[name].instance # Undefined => Positional(services[name].instance)
    /\ \A sessionId \in DOMAIN sessions :
           \A name \in DOMAIN sessions[sessionId] :
               LET instance == EntryInstance(State(services, sessions, made),
                                             sessionId, name)
               IN  instance # Undefined => Positional(instance)

\* a resolve returned an instance built from two dependencies of different
\* classes, the second of which has a dependency of its own
C28_Witness ==
    /\ Resolved
    /\ Len(last.val.args) = 2
    /\ last.val.args[1].name # last.val.args[2].name
    /\ last.val.args[1].args # <<>>

\* a step that is the failed registration of a Singleton
FailedSingleton ==
    /\ last'.op = "register"
    /\ last'.err \notin {"", "DuplicateService"}

\* C29, the two orders: a Singleton declaring [Scoped X, unregistered M] is
\* rejected with IllegalScopedInjection for X, one declaring [M, X] with
\* UnresolvedDependency for M, and nothing is constructed.
C29_TwoOrders ==
    LET S == last'.name
        deps == classes[S].paramtypes
        scoped(d) == d \in DOMAIN services /\ services[d].lifecycle = "scoped"
        missing(d) == d # ContainerName /\ d \notin DOMAIN services
    IN  (FailedSingleton /\ Len(deps) = 2)
            => /\ (scoped(deps[1]) /\ missing(deps[2]))
                     => /\ last'.err = "IllegalScopedInjection"
                        /\ last'.about = <<S, deps[1]>>
                        /\ made' = made
               /\ (missing(deps[1]) /\ scoped(deps[2]))
                     => /\ last'.err = "UnresolvedDependency"
                        /\ last'.about = <<S, deps[1]>>
                        /\ made' = made

\* a step that is the failed resolve of a registered Transient
FailedTransient ==
    /\ last'.op = "resolve"
    /\ last'.err # ""
    /\ last'.name \in DOMAIN services
    /\ services[last'.name].lifecycle = "transient"

\* C29, in general: a call that fails while it constructs a service fails at
\* one declared dependency; the dependencies declared before it have been
\* resolved in order, the error is the one of that dependency, and the
\* container is left as that dependency left it: nothing declared after it
\* has been looked up or constructed.
C29_FirstFailure ==
    LET S == last'.name
        deps == classes[S].paramtypes
        st == State(services, sessions, made)
        after == State(services', sessions', made')
        service == IF FailedTransient THEN services[S]
                   ELSE ServiceModel(S, S, "singleton")
    IN  (FailedSingleton \/ FailedTransient)
            => \E i \in DOMAIN deps :
                   LET before == mapDependencies(st, service, last'.sessionId,
                                     SubSeq(deps, 1, i - 1), <<>>, 1)
                       at == deps[i]
                       r == resolve(before.st, at, last'.sessionId, 2)
                   IN  /\ before.err = ""
                       /\ at # ContainerName
                       /\ IF at \notin DOMAIN services
                          THEN /\ last'.err = "UnresolvedDependency"
                               /\ last'.about = <<S, at>>
                               /\ after = before.st
                          ELSE IF ScopedIntoSingleton(service, services[at])
                          THEN /\ last'.err = "IllegalScopedInjection"
                               /\ last'.about = <<S, at>>
                               /\ after = before.st
                          ELSE /\ r.err # ""
                               /\ last'.err = r.err
                               /\ last'.about = <<r.name, r.dep>>
                               /\ after = r.st

\* C29: dependencies are resolved one by one in declaration order and the
\* first failing one decides the outcome.
C29_FirstFailingDecides == [][C29_TwoOrders /\ C29_FirstFailure]_vars

\* a Singleton declaring [Scoped X, unregistered M] has just been rejected
C29_Witness ==
    /\ last.op = "register"
    /\ last.err = "IllegalScopedInjection"
    /\ Len(LastDeps) = 2
    /\ last.about = <<last.name, LastDeps[1]>>
    /\ LastDeps[2] \notin DOMAIN services

\* C30: the order of the checks of resolve(name, h): a name without a
\* descriptor fails with NotFound whether h is an active scope or not; a
\* Scoped service resolved without h fails with ScopeRequired; a Scoped
\* service resolved with an h that is not an active scope fails with
\* UnknownScope, and UnknownScope always names a registered Scoped service.
C30_Step ==
    LET name == last'.name
        h == last'.sessionId
        isScoped(n) == n \in DOMAIN services /\ services[n].lifecycle = "scoped"
    IN  last'.op = "resolve"
            => /\ name \notin DOMAIN services
                     => last'.err = "NotFound" /\ last'.about = <<name, "">>
               /\ (isScoped(name) /\ h = NoSessionId)
                     => last'.err = "ScopeRequired" /\ last'.about = <<name, "">>
               /\ (isScoped(name) /\ h # NoSessionId /\ h \notin DOMAIN sessions)
                     => last'.err = "UnknownScope" /\ last'.about = <<name, "">>
               /\ last'.err = "UnknownScope"
                     => /\ isScoped(last'.about[1])
                        /\ h # NoSessionId /\ h \notin DOMAIN sessions
               /\ last'.err = "ScopeRequired"
                     => isScoped(last'.about[1]) /\ h = NoSessionId

C30_ErrorPrecedence == [][C30_Step]_vars

\* a name without a descriptor has been resolved with a handle that is not
\* an active scope while a Scoped service was registered
C30_Witness ==
    /\ last.op = "resolve"
    /\ last.err = "NotFound"
    /\ last.sessionId # NoSessionId
    /\ last.sessionId \notin DOMAIN sessions
    /\ \E n \in DOMAIN services : services[n].lifecycle = "scoped"

\* C31: resolving a registered service with a handle that is not an active
\* scope (never issued, ended, or discarded by clear) fails with
\* UnknownScope, whatever the lifecycle of the service.
C31_Step ==
    (/\ last'.op = "resolve"
     /\ last'.name \in DOMAIN services
     /\ last'.sessionId # NoSessionId
     /\ last'.sessionId \notin DOMAIN sessions)
        => last'.err = "UnknownScope"

C31_InactiveHandleFails == [][C31_Step]_vars

\* the services other than name that the declared dependencies of name lead
\* to
Chain(name) == Reaches(name, MaxDepth) \ {name, ContainerName}

\* the step is a resolve without a scope of a registered Transient whose
\* dependency chain contains a registered Scoped service
TransientOverScoped ==
    /\ last'.op = "resolve"
    /\ last'.sessionId = NoSessionId
    /\ LifecycleOf(last'.name) = "transient"
    /\ \E x \in Chain(last'.name) : LifecycleOf(x) = "scoped"

\* C32, as stated: such a resolve fails with ScopeRequired.
C32_AlwaysScopeRequired ==
    [][TransientOverScoped => last'.err = "ScopeRequired"]_vars

\* an object that is not an instance of a registered Scoped service and
\* holds none
RECURSIVE NoScopedIn(_)
NoScopedIn(instance) ==
    /\ LifecycleOf(instance.name) # "scoped"
    /\ \A k \in DOMAIN instance.args : NoScopedIn(instance.args[k])

\* C32, amended: such a resolve always fails and leaves the descriptors and
\* the scopes as they were; the error is ScopeRequired, naming a Scoped
\* service of the chain, when every service of the chain is registered, and
\* the error of a dependency declared before the Scoped one otherwise.  No
\* instance a resolve without a scope returns is or holds an instance of a
\* Scoped service.
C32_Step ==
    /\ TransientOverScoped
           => /\ last'.err # ""
              /\ services' = services /\ sessions' = sessions
              /\ Chain(last'.name) \subseteq DOMAIN services
                     => /\ last'.err = "ScopeRequired"
                        /\ last'.about[1] \in Chain(last'.name)
                        /\ LifecycleOf(last'.about[1]) = "scoped"
              /\ last'.err # "ScopeRequired"
                     => /\ last'.err \in {"UnresolvedDependency", "RangeError"}
                        /\ ~(Chain(last'.name) \subseteq DOMAIN services)
    /\ (last'.op = "resolve" /\ last'.err = "" /\ last'.sessionId = NoSessionId)
           => NoScopedIn(last'.val)

C32_ScopedNeedsScope == [][C32_Step]_vars

\* a Transient all of whose chain is registered has been resolved without
\* a scope and was refused for a Scoped dependency
C32_Witness ==
    /\ last.op = "resolve" /\ last.sessionId = NoSessionId
    /\ last.err = "ScopeRequired"
    /\ LifecycleOf(last.name) = "transient"
    /\ last.about[1] \in Chain(last.name)
    /\ Chain(last.name) \subseteq DOMAIN services
    /\ Cardinality(Chain(last.name)) = 2

\* C33: the container keeps no instance of a scope that has ended: the
\* descriptor of a Scoped service carries no instance unless that instance
\* is the one cached in an active scope, and when no scope is active no
\* Scoped service has a stored instance.
C33_ReleasedWithScope ==
    \A name \in DOMAIN services :
        (services[name].lifecycle = "scoped" /\ services[name].instance # Undefined)
            => \E sessionId \in DOMAIN sessions :
                   /\ name \in DOMAIN sessions[sessionId]
                   /\ EntryInstance(State(services, sessions, made), sessionId, name)
                          = services[name].instance

\* C34: endSession(h) changes nothing but the membership of h: the
\* descriptors and their instances, and the handle and the instance cache of
\* every other scope are unchanged, nothing is constructed and no error is
\* raised; when h is not active nothing changes at all.
C34_Step ==
    LET h == last'.sessionId
        before == State(services, sessions, made)
        after == State(services', sessions', made')
    IN  last'.op = "endSession"
            => /\ last'.err = ""
               /\ services' = services
               /\ made' = made /\ uuids' = uuids
               /\ DOMAIN sessions' = DOMAIN sessions \ {h}
               /\ \A other \in DOMAIN sessions' :
                      /\ sessions'[other] = sessions[other]
                      /\ \A name \in DOMAIN sessions[other] :
                             EntryInstance(after, other, name)
                                 = EntryInstance(before, other, name)
               /\ h \notin DOMAIN sessions => sessions' = sessions

C34_EndSessionFrame == [][C34_Step]_vars

\* a session has been ended while the other one, which has an instance in
\* its cache, stays active
C34_Witness ==
    /\ last.op = "endSession"
    /\ uuids = MaxSessions
    /\ last.sessionId \notin DOMAIN sessions
    /\ \E other \in DOMAIN sessions :
           /\ other # last.sessionId
           /\ sessions[other] # EmptyMap
    /\ \E name \in DOMAIN services :
           services[name].lifecycle = "singleton" /\ services[name].instance # Undefined

\* C35: beginSession() returns a handle that no active scope has, makes it
\* active with an empty instance cache, and leaves the descriptors and the
\* caches of the other scopes unchanged: there is exactly one more active
\* scope.
C35_Step ==
    LET h == last'.sessionId
        before == State(services, sessions, made)
        after == State(services', sessions', made')
    IN  last'.op = "beginSession"
            => /\ h # NoSessionId
               /\ h \notin DOMAIN sessions
               /\ DOMAIN sessions' = DOMAIN sessions \cup {h}
               /\ Cardinality(DOMAIN sessions') = Cardinality(DOMAIN sessions) + 1
               /\ sessions'[h] = EmptyMap
               /\ services' = services /\ made' = made
               /\ \A other \in DOMAIN sessions :
                      /\ sessions'[other] = sessions[other]
                      /\ \A name \in DOMAIN sessions[other] :
                             EntryInstance(after, other, name)
                                 = EntryInstance(before, other, name)

C35_BeginSessionFresh == [][C35_Step]_vars

\* a second session has just been begun while the first one, which has an
\* instance in its cache, is active
C35_Witness ==
    /\ last.op = "beginSession"
    /\ Cardinality(DOMAIN sessions) = 2
    /\ sessions[last.sessionId] = EmptyMap
    /\ \E other \in DOMAIN sessions : sessions[other] # EmptyMap

\* the declared dependencies of class name lead back to a class they pass
Cyclic(name) ==
    \E x \in Reaches(name, MaxDepth) \cap Names :
        \E i \in DOMAIN classes[x].paramtypes :
            x \in Reaches(classes[x].paramtypes[i], MaxDepth)

\* the declared dependencies of class name reach a class along two ways:
\* two constructor parameters of one class lead to it
ReachedTwice(name) ==
    \E x \in Reaches(name, MaxDepth) \cap Names :
        \E i \in DOMAIN classes[x].paramtypes :
            \E j \in DOMAIN classes[x].paramtypes :
                /\ i # j
                /\ Reaches(classes[x].paramtypes[i], MaxDepth)
                       \cap Reaches(classes[x].paramtypes[j], MaxDepth)
                       \cap Names # {}

\* C36: no call fails as a cycle unless the declared dependencies of its
\* service form one, whatever calls came before it; a service with a valid
\* acyclic chain that reaches a service twice resolves to an instance.
C36_NoSpuriousCycle ==
    /\ last.err # "CircularDependency"
    /\ (last.err = "RangeError" /\ last.name \in Names) => Cyclic(last.name)
    /\ (/\ last.op = "resolve"
        /\ last.name \in DOMAIN services
        /\ ~Cyclic(services[last.name].classType)
        /\ ReachedTwice(services[last.name].classType)
        /\ ValidChain(last.name, last.sessionId, MaxDepth))
           => last.err = "" /\ last.val # Undefined

\* a transient whose two dependencies are a singleton and that singleton's
\* own dependency, declared twice by it, has just resolved
C36_Witness ==
    /\ last.op = "resolve"
    /\ last.err = ""
    /\ last.name \in DOMAIN services
    /\ ~Cyclic(last.name)
    /\ LET deps == classes[last.name].paramtypes
       IN  /\ Len(deps) = 2
           /\ deps[1] \in Names
           /\ deps[2] \in Names
           /\ classes[deps[1]].paramtypes = <<deps[2], deps[2]>>

\* the objects of a resolved value: the instance and, through its
\* constructor arguments, the instances it was built from
RECURSIVE Objects(_)
Objects(val) ==
    IF val.id <= 0 THEN {}
    ELSE {[id |-> val.id, name |-> val.name]}
             \cup UNION {Objects(val.args[i]) : i \in DOMAIN val.args}

\* C37, in every state: a registered Singleton has its instance, an object
\* of its class, and every service its constructor declares is registered.
C37_SingletonBuilt ==
    \A name \in DOMAIN services :
        services[name].lifecycle = "singleton"
            => /\ services[name].instance # Undefined
               /\ services[name].instance.name = services[name].classType
               /\ LET deps == classes[services[name].classType].paramtypes
                  IN  \A i \in DOMAIN deps :
                          deps[i] = ContainerName \/ deps[i] \in DOMAIN services

\* C37, for every call: register constructs the Singleton it stores, as the
\* last object it builds, and stores nothing when a declared dependency is
\* not registered; no call but clear() replaces the instance of a
\* registered Singleton; resolve constructs no object of a Singleton class.
C37_Step ==
    /\ (last'.op = "register" /\ classes[last'.name].lifecycle = "singleton")
           => LET deps == classes[last'.name].paramtypes
              IN  /\ last'.err = ""
                      => /\ made' > made
                         /\ services'[last'.name].instance.id = made'
                  /\ (\E i \in DOMAIN deps :
                          deps[i] # ContainerName /\ deps[i] \notin DOMAIN services)
                      => /\ last'.err # ""
                         /\ last'.name \notin DOMAIN services'
    /\ last'.op # "clear"
           => \A name \in DOMAIN services :
                  services[name].lifecycle = "singleton"
                      => /\ name \in DOMAIN services'
                         /\ services'[name].instance = services[name].instance
    /\ (last'.op = "resolve" /\ last'.err = "")
           => /\ \A o \in Objects(last'.val) :
                      o.id > made => classes[o.name].lifecycle # "singleton"
              /\ services[last'.name].lifecycle = "singleton"
                      => /\ made' = made
                         /\ last'.val = services[last'.name].instance

\* C37: a Singleton is constructed once, by register, and never by resolve.
C37_ConstructedByRegister == []C37_SingletonBuilt /\ [][C37_Step]_vars

\* a Transient has just been resolved into a new object whose first
\* constructor argument is the instance of a Singleton that has
\* dependencies of its own, built when that Singleton was registered
C37_Witness ==
    /\ last.op = "resolve"
    /\ last.err = ""
    /\ classes[last.name].lifecycle = "transient"
    /\ last.val.id = made
    /\ LET deps == classes[last.name].paramtypes
       IN  /\ deps # <<>>
           /\ deps[1] \in DOMAIN services
           /\ services[deps[1]].lifecycle = "singleton"
           /\ classes[deps[1]].paramtypes # <<>>
           /\ last.val.args[1] = services[deps[1]].instance
           /\ last.val.args[1].id < made

\* the instances of a resolved value: the instance and, through its
\* constructor arguments, the instances it was built from
RECURSIVE Instances(_)
Instances(val) ==
    IF val.id <= 0 THEN {}
    ELSE {val} \cup UNION {Instances(val.args[i]) : i \in DOMAIN val.args}

\* the injections of a Transient made while val was built by a call that
\* found base objects constructed: which object received which instance at
\* which position of its constructor
Injections(val, base) ==
    LET sites == UNION {{<<o, i>> : i \in DOMAIN o.args} :
                           o \in {x \in Instances(val) : x.id > base}}
        injected(p) == p[1].args[p[2]]
    IN  {[into |-> p[1].id, at |-> p[2], obj |-> injected(p).id] :
            p \in {q \in sites :
                      /\ injected(q).id > 0
                      /\ classes[injected(q).name].lifecycle = "transient"}}

\* what a successful call built or returned: the value of resolve, the
\* instance register stored
Built(call, svc) ==
    IF call.op = "resolve" THEN call.val
    ELSE IF call.op = "register" /\ call.name \in DOMAIN svc
    THEN svc[call.name].instance
    ELSE Undefined

\* C38, for every call: each Transient instance that the call injects was
\* constructed during the call, and is injected once only, into one object
\* at one position; a Transient resolved directly is a new object too.
C38_Step ==
    (last'.op \in {"resolve", "register"} /\ last'.err = "")
        => LET inj == Injections(Built(last', services'), made)
           IN  /\ \A x \in inj : x.obj > made
               /\ \A x \in inj : \A y \in inj : x.obj = y.obj => x = y
               /\ (last'.op = "resolve"
                       /\ services[last'.name].lifecycle = "transient")
                      => last'.val.id > made

\* C38, in every state: of two resolve calls made one after the other, for
\* two dependents of a Transient or twice for the same one, the second
\* injects no Transient instance that the first one injected or returned.
C38_TwoResolutions ==
    \A d1 \in DOMAIN services, d2 \in DOMAIN services,
       sessionId \in {NoSessionId} \cup DOMAIN sessions :
        LET r1 == resolve(State(services, sessions, made), d1, sessionId, 1)
            r2 == resolve(r1.st, d2, sessionId, 1)
        IN  (r1.err = "" /\ r2.err = "")
                => \A y \in Injections(r2.val, r1.st.made) :
                       /\ y.obj > r1.st.made
                       /\ y.obj # r1.val.id
                       /\ \A x \in Injections(r1.val, made) : x.obj # y.obj

\* C38: every injection of a Transient dependency is a fresh instance.
C38_TransientFresh == []C38_TwoResolutions /\ [][C38_Step]_vars

\* a service that declares the same Transient for two constructor
\* parameters has just been resolved, and the two arguments are two
\* objects; another service that depends on the Transient is registered
C38_Witness ==
    /\ last.op = "resolve"
    /\ last.err = ""
    /\ LET deps == classes[last.name].paramtypes
       IN  /\ Len(deps) = 2
           /\ deps[1] = deps[2]
           /\ deps[1] \in DOMAIN services
           /\ services[deps[1]].lifecycle = "transient"
           /\ last.val.args[1].id > 0
           /\ last.val.args[2].id > 0
           /\ last.val.args[1].id # last.val.args[2].id
           /\ \E other \in DOMAIN services :
                  /\ other # last.name
                  /\ \E i \in DOMAIN classes[other].paramtypes :
                         classes[other].paramtypes[i] = deps[1]

====
